---- MODULE Spec2Model ----
(***************************************************************************)
(* Model of scripts/remote-deploy.py: main() connects one SSH session,     *)
(* runs the command list through run_command() one command at a time,      *)
(* writes progress to sys.stdout and leaves through except/finally.        *)
(*                                                                         *)
(* Text is a sequence of tokens.  A token is one character, or a fixed     *)
(* ASCII literal of the script written as one token.  "E" stands for a     *)
(* non-ASCII character (e-acute), "R" for U+FFFD.  Bytes of the remote     *)
(* error stream are tokens too: "C3" "A9" is the UTF-8 encoding of "E",    *)
(* "FF" is a byte that is never valid UTF-8.                               *)
(***************************************************************************)
EXTENDS Integers, Sequences, FiniteSets, TLC

VARIABLES
    commands,   \* the list `commands` of main()
    encoding,   \* encoding of the invoker's sys.stdout
    pc,         \* position of main()/run_command()
    idx,        \* position of the for-loop in `commands` (1-based)
    ssh,        \* the SSHClient: "new", "connected" or "closed"
    remote,     \* the remote process behind the current channel
    out,        \* what has been written to sys.stdout, in order
    calls,      \* what has happened on the transport, in order
    exc,        \* the exception caught by `except Exception as e`
    exit_code   \* the code the process exits with once pc = "exited"

vars == <<commands, encoding, pc, idx, ssh, remote, out, calls, exc, exit_code>>

----------------------------------------------------------------------------
(* Bounds and input pools *)

MaxCmds == 2

CmdTrue  == <<"t", "r", "u", "e">>
CmdFalse == <<"f", "a", "l", "s", "e">>
CmdProbe == <<"c", "u", "r", "l", " ", "-", "s", " ", "h">>
\* the commands the lists of length <= MaxCmds are built from
CommandPool == {CmdTrue, CmdProbe}
\* the list of the scenario "true, false, diagnostic probe"
ScenarioCommands == <<CmdTrue, CmdFalse, CmdProbe>>

LineOk == <<"o", "k", "\n">>
LineE  == <<"E", "\n">>
\* what a remote command may write to its stdout, as lines
OutPool == {<< >>, <<LineOk, LineE>>}
\* what a remote command may write to its stderr, as bytes
ErrPool == {<< >>, <<"w", "\n">>, <<"C3", "A9", "FF">>}
ExitStatuses == {0, 1}
Encodings == {"ascii", "utf-8"}

NonAscii == {"E", "R"}
Idle == [state |-> "idle", out |-> << >>, err |-> << >>, status |-> 0]
RaiseOps == {"raise_connect", "raise_execute", "raise_readline", "raise_stderr"}

Range(s) == {s[k] : k \in DOMAIN s}
SeqsUpTo(S, n) == UNION {[1..k -> S] : k \in 0..n}

----------------------------------------------------------------------------
(* Pure helpers of the script *)

\* Python's `needle in s` on strings
Contains(needle, s) ==
    \E k \in 0..(Len(s) - Len(needle)) : SubSeq(s, k + 1, k + Len(needle)) = needle

\* the test written with == for `in`
IsDiagnostic_Exact(cmd) == cmd = <<"c", "u", "r", "l">>

\* the test on line 91: "curl" in cmd
IsDiagnostic(cmd) == Contains(<<"c", "u", "r", "l">>, cmd)

\* whether sys.stdout can encode the text; print() raises UnicodeEncodeError if not
CanEncode(text, enc) == enc = "utf-8" \/ Range(text) \cap NonAscii = {}

\* line.encode('ascii', 'replace').decode()
AsciiReplace(text) == [k \in DOMAIN text |-> IF text[k] \in NonAscii THEN "?" ELSE text[k]]

\* bytes.decode('utf-8', errors='replace')
RECURSIVE DecodeUtf8Replace(_)
DecodeUtf8Replace(bytes) ==
    IF bytes = << >> THEN << >>
    ELSE IF Len(bytes) >= 2 /\ bytes[1] = "C3" /\ bytes[2] = "A9"
         THEN <<"E">> \o DecodeUtf8Replace(SubSeq(bytes, 3, Len(bytes)))
    ELSE IF bytes[1] \in {"C3", "A9", "FF"}
         THEN <<"R">> \o DecodeUtf8Replace(Tail(bytes))
    ELSE <<bytes[1]>> \o DecodeUtf8Replace(Tail(bytes))

Entry(kind, i, text) == [kind |-> kind, idx |-> i, text |-> text]
Call(op, i, status) == [op |-> op, idx |-> i, status |-> status, data |-> << >>]
CallData(op, i, data) == [op |-> op, idx |-> i, status |-> 0, data |-> data]

\* print(f"\n>>> {command}")
AnnounceText(cmd) == <<"\n>>> ">> \o cmd \o <<"\n">>
\* print(f"STDERR: {err}")
StderrText(err) == <<"STDERR: ">> \o err \o <<"\n">>
\* print(f"\nWarning: Command exited with status {status}")
WarningText(status) == <<"\nWarning: Command exited with status ", ToString(status), "\n">>

\* lines 26-29: print the line, or its lossy re-encoding if print raises
LineWritten(line, enc) == IF CanEncode(line, enc) THEN line ELSE AsciiReplace(line)

\* lines 32-37 without the test `if err:`
StderrWritten_Unconditional(i, bytes, enc) ==
    LET err == DecodeUtf8Replace(bytes)
    IN IF CanEncode(StderrText(err), enc)
       THEN <<Entry("stderr", i, StderrText(err))>>
       ELSE << >>

\* lines 32-37: what the stderr block adds to sys.stdout
StderrWritten(i, bytes, enc) ==
    LET err == DecodeUtf8Replace(bytes)
    IN IF err # << >> /\ CanEncode(StderrText(err), enc)
       THEN <<Entry("stderr", i, StderrText(err))>>
       ELSE << >>

\* lines 91-92 without the test `status != 0`
WarningWritten_Unchecked(i, cmd, status) ==
    IF ~IsDiagnostic(cmd)
    THEN <<Entry("warning", i, WarningText(status))>>
    ELSE << >>

\* lines 91-92: what main writes after run_command returned `status`
WarningWritten(i, cmd, status) ==
    IF status # 0 /\ ~IsDiagnostic(cmd)
    THEN <<Entry("warning", i, WarningText(status))>>
    ELSE << >>

\* a for-loop that leaves after its first command
AfterCommand_Break(i) == "banner"

\* line 89: where the for-loop goes after the command at position i
AfterCommand(i) == IF i < Len(commands) THEN "start" ELSE "banner"

----------------------------------------------------------------------------
(* Initial state: main() has printed its header, the client is created *)

Init ==
    /\ commands \in SeqsUpTo(CommandPool, MaxCmds) \cup {ScenarioCommands}
    /\ encoding \in Encodings
    /\ pc = "connect"
    /\ idx = 1
    /\ ssh = "new"
    /\ remote = Idle
    /\ out = <<Entry("header", 0, <<"TrueTicket Remote Deployment\n">>)>>
    /\ calls = << >>
    /\ exc = "none"
    /\ exit_code = 0

----------------------------------------------------------------------------
(* main(): connect *)

\* line 52-53, ssh.connect returns
main_connect ==
    /\ pc = "connect"
    /\ ssh' = "connected"
    /\ calls' = Append(calls, Call("connect", 0, 0))
    /\ out' = Append(out, Entry("connected", 0, <<"Connected successfully!\n">>))
    /\ pc' = IF commands = << >> THEN "banner" ELSE "start"
    /\ UNCHANGED <<commands, encoding, idx, remote, exc, exit_code>>

\* line 52, ssh.connect raises
main_connect_raises ==
    /\ pc = "connect"
    /\ \E e \in {"ConnectionError", "AuthenticationException", "timed out"} : exc' = e
    /\ calls' = Append(calls, Call("raise_connect", 0, 0))
    /\ pc' = "except"
    /\ UNCHANGED <<commands, encoding, idx, ssh, remote, out, exit_code>>

----------------------------------------------------------------------------
(* run_command() *)

\* lines 18-19, exec_command returns the three streams
run_command_exec ==
    /\ pc = "start"
    /\ out' = Append(out, Entry("announce", idx, AnnounceText(commands[idx])))
    /\ \E o \in OutPool, e \in ErrPool, s \in ExitStatuses :
          remote' = [state |-> "running", out |-> o, err |-> e, status |-> s]
    /\ calls' = Append(calls, Call("execute", idx, 0))
    /\ pc' = "readline"
    /\ UNCHANGED <<commands, encoding, idx, ssh, exc, exit_code>>

\* lines 18-19, exec_command raises
run_command_exec_raises ==
    /\ pc = "start"
    /\ out' = Append(out, Entry("announce", idx, AnnounceText(commands[idx])))
    /\ calls' = Append(calls, Call("raise_execute", idx, 0))
    /\ exc' = "SSHException"
    /\ pc' = "except"
    /\ UNCHANGED <<commands, encoding, idx, ssh, remote, exit_code>>

\* lines 23-29, readline returns a line and it is printed
run_command_readline ==
    /\ pc = "readline"
    /\ remote.out # << >>
    /\ LET line == Head(remote.out)
       IN out' = Append(out, Entry("stdout", idx, LineWritten(line, encoding)))
    /\ calls' = Append(calls, CallData("recv", idx, Head(remote.out)))
    /\ remote' = [remote EXCEPT !.out = Tail(@)]
    /\ UNCHANGED <<commands, encoding, pc, idx, ssh, exc, exit_code>>

\* lines 23-25, readline returns '' and the loop ends
run_command_eof ==
    /\ pc = "readline"
    /\ remote.out = << >>
    /\ calls' = Append(calls, Call("eof", idx, 0))
    /\ pc' = "stderr"
    /\ UNCHANGED <<commands, encoding, idx, ssh, remote, out, exc, exit_code>>

\* line 23, readline raises (socket.timeout, dropped session)
run_command_readline_raises ==
    /\ pc = "readline"
    /\ calls' = Append(calls, Call("raise_readline", idx, 0))
    /\ exc' = "timeout"
    /\ pc' = "except"
    /\ UNCHANGED <<commands, encoding, idx, ssh, remote, out, exit_code>>

\* lines 32-35, stderr.read() returns everything and the block is printed;
\* a UnicodeEncodeError of that print is swallowed by lines 36-37
run_command_stderr ==
    /\ pc = "stderr"
    /\ out' = out \o StderrWritten(idx, remote.err, encoding)
    /\ remote' = [remote EXCEPT !.err = << >>]
    /\ calls' = Append(calls, CallData("drained", idx, remote.err))
    /\ pc' = "status"
    /\ UNCHANGED <<commands, encoding, idx, ssh, exc, exit_code>>

\* line 33, stderr.read() raises; lines 36-37 swallow it
run_command_stderr_raises ==
    /\ pc = "stderr"
    /\ calls' = Append(calls, Call("raise_stderr", idx, 0))
    /\ pc' = "status"
    /\ UNCHANGED <<commands, encoding, idx, ssh, remote, out, exc, exit_code>>

\* the remote process terminates; recv_exit_status waits for this without a timeout
remote_exit ==
    /\ pc = "status"
    /\ remote.state = "running"
    /\ remote' = [remote EXCEPT !.state = "exited"]
    /\ UNCHANGED <<commands, encoding, pc, idx, ssh, out, calls, exc, exit_code>>

\* the remote process has closed its streams and never terminates
remote_stall ==
    /\ pc = "status"
    /\ remote.state = "running"
    /\ remote' = [remote EXCEPT !.state = "stalled"]
    /\ UNCHANGED <<commands, encoding, pc, idx, ssh, out, calls, exc, exit_code>>

\* line 39 and lines 90-92: recv_exit_status returns, main checks the status
\* and the for-loop moves on
run_command_status ==
    /\ pc = "status"
    /\ remote.state = "exited"
    /\ calls' = Append(calls, Call("status", idx, remote.status))
    /\ out' = out \o WarningWritten(idx, commands[idx], remote.status)
    /\ pc' = AfterCommand(idx)
    /\ idx' = idx + 1
    /\ remote' = Idle
    /\ UNCHANGED <<commands, encoding, ssh, exc, exit_code>>

----------------------------------------------------------------------------
(* main(): the way out *)

\* lines 94-100
main_banner ==
    /\ pc = "banner"
    /\ out' = Append(out, Entry("banner", 0, <<"Deployment Complete!\n">>))
    /\ pc' = "finally"
    /\ UNCHANGED <<commands, encoding, idx, ssh, remote, calls, exc, exit_code>>

\* lines 102-104 without sys.exit(1)
main_except_no_exit ==
    /\ pc = "except"
    /\ out' = Append(out, Entry("error", 0, <<"Error: ", exc, "\n">>))
    /\ pc' = "finally"
    /\ UNCHANGED <<commands, encoding, idx, ssh, remote, calls, exc, exit_code>>

\* lines 102-104
main_except ==
    /\ pc = "except"
    /\ out' = Append(out, Entry("error", 0, <<"Error: ", exc, "\n">>))
    /\ exit_code' = 1
    /\ pc' = "finally"
    /\ UNCHANGED <<commands, encoding, idx, ssh, remote, calls, exc>>

\* the process ends without the finally clause closing the session
main_finally_no_close ==
    /\ pc = "finally"
    /\ pc' = "exited"
    /\ UNCHANGED <<commands, encoding, idx, ssh, remote, out, calls, exc, exit_code>>

\* lines 105-106, then the process ends
main_finally ==
    /\ pc = "finally"
    /\ ssh' = "closed"
    /\ calls' = Append(calls, Call("close", 0, 0))
    /\ pc' = "exited"
    /\ UNCHANGED <<commands, encoding, idx, remote, out, exc, exit_code>>

----------------------------------------------------------------------------

Program ==
    \/ main_connect
    \/ main_connect_raises
    \/ run_command_exec
    \/ run_command_exec_raises
    \/ run_command_readline
    \/ run_command_eof
    \/ run_command_readline_raises
    \/ run_command_stderr
    \/ run_command_stderr_raises
    \/ run_command_status
    \/ main_banner
    \/ main_except
    \/ main_finally

Remote == remote_exit \/ remote_stall

Next == Program \/ Remote

Spec == Init /\ [][Next]_vars

\* the interpreter takes every step that does not block, and a remote process
\* that has not stalled terminates
LiveSpec == Spec /\ WF_vars(Program) /\ WF_vars(Remote)

----------------------------------------------------------------------------
(* Vocabulary of the properties *)

NumCommands == Len(commands)
IsOp(k, op, j) == calls[k].op = op /\ calls[k].idx = j
HasOp(op, j) == \E k \in DOMAIN calls : IsOp(k, op, j)
IsOut(m, kind, j) == out[m].kind = kind /\ out[m].idx = j
NoOut(kind, j) == \A m \in DOMAIN out : ~IsOut(m, kind, j)
OneOut(kind, j) ==
    \E m \in DOMAIN out :
        IsOut(m, kind, j) /\ \A n \in DOMAIN out : IsOut(n, kind, j) => n = m
\* some call of the transport has raised, in connect or in a step of run_command
Raised == \E k \in DOMAIN calls : calls[k].op \in RaiseOps
\* the designated diagnostic command of the lists: the health-check probe
Designated(j) == commands[j] = CmdProbe
\* the run has gone on from command j to the next one, or to the closing banner
ProceededFrom(j) ==
    /\ idx > j
    /\ j < NumCommands =>
          \/ pc = "start" /\ idx = j + 1
          \/ HasOp("execute", j + 1)
          \/ HasOp("raise_execute", j + 1)
    /\ j = NumCommands => pc \in {"banner", "finally", "exited"} /\ NoOut("error", 0)
\* the scenario: true exits 0, false exits 1, the probe exits 1, the run is over
ScenarioRun ==
    /\ commands = ScenarioCommands
    /\ pc = "exited"
    /\ \E a \in DOMAIN calls : IsOp(a, "status", 1) /\ calls[a].status = 0
    /\ \E b \in DOMAIN calls : IsOp(b, "status", 2) /\ calls[b].status = 1
    /\ \E c \in DOMAIN calls : IsOp(c, "status", 3) /\ calls[c].status = 1

----------------------------------------------------------------------------
\* C1: in a run where no call of the transport raises, execute is invoked once
\* per command, in list order (all N of them once the process has exited), and
\* the execute of command j+1 comes only after command j's stdout reached
\* end-of-stream, then its stderr was drained, then its exit status was
\* obtained: at most one command is in flight.
C1_SequentialExecution ==
    ~Raised =>
        \A k \in DOMAIN calls :
            calls[k].op = "execute" =>
                LET j == calls[k].idx
                IN /\ j \in 1..NumCommands
                   /\ \A a \in 1..(k - 1) : calls[a].op = "execute" => calls[a].idx < j
                   /\ j > 1 =>
                         \E c \in 1..(k - 1) :
                             /\ IsOp(c, "status", j - 1)
                             /\ \E b \in 1..(c - 1) :
                                   /\ IsOp(b, "drained", j - 1)
                                   /\ \E a \in 1..(b - 1) :
                                         /\ IsOp(a, "eof", j - 1)
                                         /\ \E x \in 1..(a - 1) : IsOp(x, "execute", j - 1)
                   /\ pc = "exited" => \A i \in 1..NumCommands : HasOp("execute", i)

C1_Witness ==
    /\ pc = "exited" /\ ~Raised
    /\ NumCommands >= 2
    /\ \A i \in 1..NumCommands : HasOp("execute", i)

\* C2: if connect raises, execute is never called, connect is not tried again,
\* the closing banner is not printed, and the process prints one error line
\* and exits with code 1.
C2_ConnectFailure ==
    HasOp("raise_connect", 0) =>
        /\ \A k \in DOMAIN calls : calls[k].op \in {"raise_connect", "close"}
        /\ \A k \in DOMAIN calls : calls[k].op = "raise_connect" => k = 1
        /\ NoOut("banner", 0)
        /\ pc \in {"except", "finally", "exited"}
        /\ pc \in {"finally", "exited"} => OneOut("error", 0) /\ exit_code = 1

C2_Witness == HasOp("raise_connect", 0) /\ pc = "exited" /\ exc = "timed out"

\* C3: once a command other than the designated diagnostic command has
\* returned exit status s, sys.stdout holds exactly one warning for it, naming
\* s, if s is not 0 and none if s is 0, and the run has gone on to the next
\* command (to the closing banner after the last one).
C3_WarningOnFailure ==
    \A k \in DOMAIN calls :
        (calls[k].op = "status" /\ ~Designated(calls[k].idx)) =>
            LET j == calls[k].idx
                s == calls[k].status
            IN /\ IF s # 0 THEN OneOut("warning", j) ELSE NoOut("warning", j)
               /\ \A m \in DOMAIN out :
                     IsOut(m, "warning", j) => ToString(s) \in Range(out[m].text)
               /\ ProceededFrom(j)

C3_Witness ==
    \E k \in DOMAIN calls :
        /\ calls[k].op = "status" /\ ~Designated(calls[k].idx)
        /\ calls[k].status = 1
        /\ OneOut("warning", calls[k].idx)
        /\ HasOp("execute", calls[k].idx + 1)

\* C4: once the designated diagnostic command has returned any exit status,
\* sys.stdout holds no warning for it and the run has gone on as for status 0;
\* in the scenario true, false, probe with statuses 0, 1, 1 the finished run
\* has written exactly one warning, the one of the second command, and exits 0.
C4_DiagnosticExempt ==
    /\ \A k \in DOMAIN calls :
          (calls[k].op = "status" /\ Designated(calls[k].idx)) =>
              /\ NoOut("warning", calls[k].idx)
              /\ ProceededFrom(calls[k].idx)
    /\ ScenarioRun =>
          /\ OneOut("warning", 2)
          /\ NoOut("warning", 1) /\ NoOut("warning", 3)
          /\ exit_code = 0

C4_Witness == ScenarioRun

\* C5: the process exits with code 1 exactly when connect or a step of some
\* command's invocation has raised, and then the closing banner is not
\* printed; otherwise every command has run to its exit status, the closing
\* banner is the last thing printed and the exit code is 0.
C5_ExitCode ==
    pc = "exited" =>
        /\ exit_code \in {0, 1}
        /\ exit_code = 1 <=> Raised
        /\ Raised => NoOut("banner", 0)
        /\ ~Raised =>
              /\ \A j \in 1..NumCommands : HasOp("status", j)
              /\ out[Len(out)].kind = "banner"

\* C6: a failure of the transport in any step of a command (starting it,
\* reading stdout, draining stderr) ends the run: nothing but close happens on
\* the transport afterwards, and the process prints an error, closes the
\* session and exits with code 1.
C6_TransportFailureFatal ==
    \A k \in DOMAIN calls :
        calls[k].op \in {"raise_execute", "raise_readline", "raise_stderr"} =>
            /\ pc \in {"except", "finally", "exited"}
            /\ \A m \in (k + 1)..Len(calls) : calls[m].op = "close"
            /\ pc = "exited" => ssh = "closed" /\ exit_code = 1 /\ OneOut("error", 0)

\* C7: the process never ends without having closed the session: close is
\* the last call on the transport of every finished run, whether it finished,
\* failed in connect or failed inside a command, and nothing is executed
\* after it.
C7_SessionReleased ==
    /\ pc = "exited" =>
          /\ ssh = "closed"
          /\ calls # << >>
          /\ calls[Len(calls)].op = "close"
    /\ \A k \in DOMAIN calls : calls[k].op = "close" => k = Len(calls)

C7_Witness ==
    /\ pc = "exited"
    /\ HasOp("raise_readline", 2)
    /\ calls[Len(calls)].op = "close"

\* C8: every run ends: the process exits, finished or failed, whatever the
\* remote command does.
C8_RunTerminates == <>(pc = "exited")

\* what may directly follow an entry of sys.stdout
Follows(a, b) ==
    LET next_command == b.kind = "announce" /\ b.idx = a.idx + 1
        the_end == b.kind \in {"banner", "error"}
        same(kinds) == b.kind \in kinds /\ b.idx = a.idx
    IN CASE a.kind = "header" -> b.kind \in {"connected", "error"}
         [] a.kind = "connected" -> next_command \/ b.kind = "banner"
         [] a.kind \in {"announce", "stdout"} ->
                same({"stdout", "stderr", "warning"}) \/ next_command \/ the_end
         [] a.kind = "stderr" -> same({"warning"}) \/ next_command \/ the_end
         [] a.kind = "warning" -> next_command \/ the_end
         [] OTHER -> FALSE

\* C9: sys.stdout is written in order: per command its announcement
\* '>>> <command>', then its stdout lines in the order they were received
\* (each as received or in its lossy form), then at most one 'STDERR: ' block,
\* only for a non-empty error text, then at most one warning, all before the
\* announcement of the next command; a command without output, with empty
\* stderr and exit status 0 leaves its announcement and nothing else.
C9_OutputOrder ==
    /\ \A m \in 1..(Len(out) - 1) : Follows(out[m], out[m + 1])
    /\ \A m \in DOMAIN out :
          /\ out[m].kind = "announce" =>
                out[m].text = <<"\n>>> ">> \o commands[out[m].idx] \o <<"\n">>
          /\ out[m].kind = "stderr" =>
                /\ Head(out[m].text) = "STDERR: "
                /\ \E k \in DOMAIN calls :
                      /\ IsOp(k, "drained", out[m].idx)
                      /\ calls[k].data # << >>
                      /\ Len(out[m].text) > 2
    /\ LET lines == SelectSeq(out, LAMBDA e : e.kind = "stdout")
           recvs == SelectSeq(calls, LAMBDA c : c.op = "recv")
       IN /\ Len(lines) = Len(recvs)
          /\ \A n \in DOMAIN lines :
                /\ lines[n].idx = recvs[n].idx
                /\ lines[n].text \in {recvs[n].data, AsciiReplace(recvs[n].data)}
    /\ \A k \in DOMAIN calls :
          ( /\ calls[k].op = "status" /\ calls[k].status = 0
            /\ ~HasOp("recv", calls[k].idx)
            /\ \E d \in DOMAIN calls :
                  IsOp(d, "drained", calls[k].idx) /\ calls[d].data = << >> )
          => /\ OneOut("announce", calls[k].idx)
             /\ \A m \in DOMAIN out :
                   out[m].idx = calls[k].idx => out[m].kind = "announce"

C9_Witness ==
    /\ pc = "exited"
    /\ NumCommands >= 2
    /\ OneOut("stderr", 1) /\ OneOut("warning", 1)
    /\ \E m \in DOMAIN out : IsOut(m, "stdout", 1) /\ IsOut(m + 1, "stdout", 1)
    /\ HasOp("status", 2) /\ ~HasOp("recv", 2)
    /\ \A m \in DOMAIN out : out[m].idx = 2 => out[m].kind = "announce"

\* C10: text that sys.stdout cannot encode is written in its lossy form
\* instead, a stdout line as well as the error text, and the run goes on to
\* the exit status of the command.
C10_EncodingRecovered ==
    /\ \A k \in DOMAIN calls :
          (calls[k].op = "recv" /\ ~CanEncode(calls[k].data, encoding)) =>
              \E m \in DOMAIN out :
                  /\ IsOut(m, "stdout", calls[k].idx)
                  /\ out[m].text = AsciiReplace(calls[k].data)
    /\ \A k \in DOMAIN calls :
          LET err == DecodeUtf8Replace(calls[k].data)
          IN (calls[k].op = "drained" /\ err # << >> /\ ~CanEncode(err, encoding)) =>
                 /\ \E m \in DOMAIN out :
                       /\ IsOut(m, "stderr", calls[k].idx)
                       /\ out[m].text = AsciiReplace(StderrText(err))
                 /\ pc \notin {"except"}

====
